---- MODULE Spec2Model ----
(***************************************************************************)
(* Model of typedclasses: the constraint matcher of                        *)
(* typedclasses/_internal.py (apply_attr, apply_from_typing_origin), the   *)
(* binder prepare_typed_instance, and the class registry of                *)
(* typedclasses/core.py (TypedClass.__init_subclass__, TypedClass.__new__, *)
(* _typed_class_repr).                                                     *)
(*                                                                         *)
(* Python values and typing descriptors are written as strings: "1" is the *)
(* int 1, "x" a str, "None" is None, "cls_int" the class object int, and   *)
(* "Literal[1,2]" the descriptor typing.Literal[1, 2].  A value token and  *)
(* a descriptor token are never the same string, so storing a descriptor   *)
(* where a value is expected is visible.                                   *)
(***************************************************************************)
EXTENDS Integers, Sequences, FiniteSets, TLC

VARIABLES classes, call, m

vars == <<classes, call, m>>

----------------------------------------------------------------------------
(* Small helpers on sequences.                                             *)

Range(s) == {s[i] : i \in 1..Len(s)}

Append1(s, e) == s \o <<e>>

RECURSIVE RemoveKey(_, _)
(* dict.pop(k) on an insertion-ordered dict kept as a sequence of          *)
(* <<key, value>> pairs.                                                   *)
RemoveKey(d, k) ==
    IF d = <<>> THEN <<>>
    ELSE IF Head(d)[1] = k THEN RemoveKey(Tail(d), k)
         ELSE <<Head(d)>> \o RemoveKey(Tail(d), k)

Keys(d) == [i \in 1..Len(d) |-> d[i][1]]

HasKey(d, k) == \E i \in 1..Len(d) : d[i][1] = k

Lookup(d, k) == d[CHOOSE i \in 1..Len(d) : d[i][1] = k][2]

(* d[k] = v on an insertion-ordered dict: an existing key keeps its        *)
(* position, a new key goes last.                                          *)
SetKey(d, k, v) ==
    IF HasKey(d, k)
    THEN [i \in 1..Len(d) |-> IF d[i][1] = k THEN <<k, v>> ELSE d[i]]
    ELSE Append1(d, <<k, v>>)

----------------------------------------------------------------------------
(* The runtime values and the typing descriptors the model draws from.     *)

Values == {"1", "2", "True", "x", "None", "cls_int", "cls_bool", "cls_str"}

PlainTypes == {"int", "str", "NoneType", "Any"}

Types ==
    {"int", "str", "Any",
     "Optional[int]", "Optional[Literal[1]]", "Optional[Type[int]]",
     "Optional[Any]", "Optional[List[int]]",
     "Union[int,str]", "Union[NoneType,int]", "Union[int,str,NoneType]",
     "Union[Literal[1],str]", "Union[Type[int],str]", "Union[List[int],str]",
     "Union[int,Any]", "Union[Any,str]",
     "Literal[1]", "Literal[1,2]", "Type[int]", "List[int]"}

(* type(val).__name__ *)
TypeOf(val) ==
    CASE val \in {"1", "2"} -> "int"
      [] val = "True" -> "bool"
      [] val = "x" -> "str"
      [] val = "None" -> "NoneType"
      [] OTHER -> "type"

(* The classes a class derives from, itself included (cls.__mro__). *)
Mro(cls) ==
    CASE cls = "bool" -> {"bool", "int", "object"}
      [] OTHER -> {cls, "object"}

(* inspect.isclass(val) *)
isclass(val) == val \in {"cls_int", "cls_bool", "cls_str"}

(* The class a class object denotes. *)
ClassOf(val) ==
    CASE val = "cls_int" -> "int"
      [] val = "cls_bool" -> "bool"
      [] OTHER -> "str"

(* typing.get_origin(tp): "None" for a plain class and for typing.Any. *)
get_origin(tp) ==
    CASE tp \in PlainTypes -> "None"
      [] tp \in {"Optional[int]", "Optional[Literal[1]]", "Optional[Type[int]]",
                 "Optional[Any]", "Optional[List[int]]",
                 "Union[int,str]", "Union[NoneType,int]",
                 "Union[int,str,NoneType]", "Union[Literal[1],str]",
                 "Union[Type[int],str]", "Union[List[int],str]",
                 "Union[int,Any]", "Union[Any,str]"} -> "Union"
      [] tp \in {"Literal[1]", "Literal[1,2]"} -> "Literal"
      [] tp = "Type[int]" -> "type"
      [] tp = "Dict[str,Any]" -> "dict"
      [] OTHER -> "list"

(* typing.get_args(tp); Optional[X] is Union[X, None]. *)
get_args(tp) ==
    CASE tp = "Optional[int]" -> <<"int", "NoneType">>
      [] tp = "Optional[Literal[1]]" -> <<"Literal[1]", "NoneType">>
      [] tp = "Optional[Type[int]]" -> <<"Type[int]", "NoneType">>
      [] tp = "Optional[Any]" -> <<"Any", "NoneType">>
      [] tp = "Optional[List[int]]" -> <<"List[int]", "NoneType">>
      [] tp = "Union[int,str]" -> <<"int", "str">>
      [] tp = "Union[NoneType,int]" -> <<"NoneType", "int">>
      [] tp = "Union[int,str,NoneType]" -> <<"int", "str", "NoneType">>
      [] tp = "Union[Literal[1],str]" -> <<"Literal[1]", "str">>
      [] tp = "Union[Type[int],str]" -> <<"Type[int]", "str">>
      [] tp = "Union[List[int],str]" -> <<"List[int]", "str">>
      [] tp = "Union[int,Any]" -> <<"int", "Any">>
      [] tp = "Union[Any,str]" -> <<"Any", "str">>
      [] tp = "Literal[1]" -> <<"1">>
      [] tp = "Literal[1,2]" -> <<"1", "2">>
      [] tp = "Type[int]" -> <<"int">>
      [] tp = "List[int]" -> <<"int">>
      [] tp = "Dict[str,Any]" -> <<"str", "Any">>
      [] OTHER -> <<>>

(* isinstance(val, tp) raises TypeError for typing.Any and for every       *)
(* subscripted generic.                                                    *)
isinstance_raises(tp) == tp = "Any" \/ get_origin(tp) # "None"

(* isinstance(val, tp) for a plain class tp. *)
isinstance(val, tp) == tp \in Mro(TypeOf(val))

(* issubclass(val, tp) for a class object val. *)
issubclass(val, tp) == tp \in Mro(ClassOf(val))

----------------------------------------------------------------------------
(* The matcher.  Its outcome is what it did to the instance:               *)
(*   res = "set"                setattr(tc, name, stored) was called,      *)
(*   res = "TypeMismatch"       the matcher raised its own TypeError, with *)
(*                              the message shape and the expected types,  *)
(*   res = "InstanceCheckError" isinstance itself raised TypeError.        *)

Assigned(x) == [res |-> "set", shape |-> "", expect |-> <<>>, stored |-> x]

Mismatch(shape, expect) ==
    [res |-> "TypeMismatch", shape |-> shape, expect |-> expect, stored |-> ""]

InstanceCheckError ==
    [res |-> "InstanceCheckError", shape |-> "", expect |-> <<>>, stored |-> ""]

RECURSIVE apply_from_typing_origin(_, _, _)
RECURSIVE union_loop(_, _, _)

(* The loop over the branches of a Union, from branch i on. *)
union_loop(args, i, val) ==
    IF i > Len(args) THEN Mismatch("one of", args)
    ELSE LET arg == args[i]
             origin == get_origin(arg)
         IN  IF origin # "None"
             THEN IF apply_from_typing_origin(origin, val, arg).res = "set"
                  THEN apply_from_typing_origin(origin, val, arg)
                  ELSE union_loop(args, i + 1, val)
             ELSE IF isinstance_raises(arg) THEN InstanceCheckError
                  ELSE IF isinstance(val, arg) THEN Assigned(val)
                       ELSE union_loop(args, i + 1, val)

apply_from_typing_origin(origin, val, tp) ==
    LET args == get_args(tp)
    IN  IF origin = "Union" /\ args[2] = "NoneType" /\ Len(args) = 2
        THEN IF val # "None"
             THEN IF isinstance_raises(args[1]) THEN InstanceCheckError
                  ELSE IF ~isinstance(val, args[1])
                       THEN Mismatch("None or", <<args[1]>>)
                       ELSE Assigned(val)
             ELSE Assigned(val)
        ELSE IF origin = "Union" THEN union_loop(args, 1, val)
        ELSE IF origin = "Literal"
             THEN IF \E i \in 1..Len(args) : val = args[i]
                  THEN Assigned(tp)
                  ELSE Mismatch("exactly one of", args)
        ELSE IF origin = "type"
             THEN IF ~isclass(val) \/ ~issubclass(val, args[1])
                  THEN Mismatch("type instance of", <<args[1]>>)
                  ELSE Assigned(val)
        ELSE Assigned(val)

apply_attr(val, tp) ==
    LET origin == get_origin(tp)
    IN  IF origin # "None" THEN apply_from_typing_origin(origin, val, tp)
        ELSE IF tp = "Any" THEN Assigned(val)
        ELSE IF ~isinstance(val, tp) THEN Mismatch("instance of", <<tp>>)
        ELSE Assigned(val)

----------------------------------------------------------------------------
(* The class registry: TypedClass.__init_subclass__.                       *)

ClassNames == {"B", "D"}

(* name.startswith("__") and name.startswith("_") for the names in use. *)
startswith(name, prefix) ==
    CASE prefix = "__" -> name \in {"__tc_options__"}
      [] prefix = "_" -> name \in {"_p", "__tc_options__"}
      [] OTHER -> FALSE

(* The annotation TypedClass itself declares (core.py line 53). *)
TypedClassAnnotations == << <<"__tc_options__", "Dict[str,Any]">> >>

(* A class that is not defined yet. *)
NoClass ==
    [defined |-> FALSE, base |-> "", annotations |-> <<>>, assigned |-> {},
     ignore_internal |-> FALSE, repr_attached |-> FALSE,
     tc_options |-> [ignore_extra |-> FALSE, optional_params |-> <<>>,
                     required_params |-> <<>>, params |-> <<>>]]

RECURSIVE merge_annotations(_, _)
(* hints.update(own): a name already present keeps its position. *)
merge_annotations(hints, own) ==
    IF own = <<>> THEN hints
    ELSE merge_annotations(SetKey(hints, Head(own)[1], Head(own)[2]), Tail(own))

RECURSIVE get_type_hints(_, _, _)
(* typing.get_type_hints(cls): the annotations of every class of the MRO,  *)
(* base classes first.                                                     *)
get_type_hints(cs, base, own) ==
    IF base = "TypedClass" THEN merge_annotations(TypedClassAnnotations, own)
    ELSE merge_annotations(
             get_type_hints(cs, cs[base].base, cs[base].annotations), own)

RECURSIVE register_loop_keep_dunder(_, _, _, _, _, _)
(* register_loop without the test of line 86: names starting with a double *)
(* underscore are registered like any other.                               *)
register_loop_keep_dunder(annotations, i, members, ignore_internal, buckets, params) ==
    IF i > Len(annotations)
    THEN [optional_params |-> buckets.optional_params,
          required_params |-> buckets.required_params,
          params |-> params]
    ELSE LET name == annotations[i][1]
             tp == annotations[i][2]
         IN  IF startswith(name, "_") /\ ~startswith(name, "__")
                /\ ignore_internal
             THEN register_loop_keep_dunder(annotations, i + 1, members,
                      ignore_internal, buckets, params)
             ELSE IF name \in members
             THEN register_loop_keep_dunder(annotations, i + 1, members,
                      ignore_internal,
                      [optional_params |->
                           SetKey(buckets.optional_params, name, tp),
                       required_params |->
                           RemoveKey(buckets.required_params, name)],
                      Append1(params, name))
             ELSE register_loop_keep_dunder(annotations, i + 1, members,
                      ignore_internal,
                      [optional_params |->
                           RemoveKey(buckets.optional_params, name),
                       required_params |->
                           SetKey(buckets.required_params, name, tp)],
                      Append1(params, name))

RECURSIVE register_loop(_, _, _, _, _, _)
(* The loop of lines 85-104 from annotation i on. *)
register_loop(annotations, i, members, ignore_internal, buckets, params) ==
    IF i > Len(annotations)
    THEN [optional_params |-> buckets.optional_params,
          required_params |-> buckets.required_params,
          params |-> params]
    ELSE LET name == annotations[i][1]
             tp == annotations[i][2]
         IN  IF startswith(name, "__")
             THEN register_loop(annotations, i + 1, members, ignore_internal,
                                buckets, params)
             ELSE IF startswith(name, "_") /\ ignore_internal
             THEN register_loop(annotations, i + 1, members, ignore_internal,
                                buckets, params)
             ELSE IF name \in members
             THEN register_loop(annotations, i + 1, members, ignore_internal,
                      [optional_params |->
                           SetKey(buckets.optional_params, name, tp),
                       required_params |->
                           RemoveKey(buckets.required_params, name)],
                      Append1(params, name))
             ELSE register_loop(annotations, i + 1, members, ignore_internal,
                      [optional_params |->
                           RemoveKey(buckets.optional_params, name),
                       required_params |->
                           SetKey(buckets.required_params, name, tp)],
                      Append1(params, name))

(* Lines 68-74: options is the dict created on line 68, which holds only   *)
(* "ignore_extra" when the two buckets are read from it, so both           *)
(* options.get(..., dict()) calls return their default.                    *)
initial_buckets(cs, base) ==
    [optional_params |-> <<>>, required_params |-> <<>>]

(* TypedClass_init_subclass filling the bucket dicts of the base in place  *)
(* instead of dicts of its own: the base's metadata changes with it.       *)
TypedClass_init_subclass_shared(cs, cls, base, body, ignore_internal, ignore_extra, repr) ==
    LET members == body.assigned \cup {"__tc_options__"}
        annotations == get_type_hints(cs, base, body.annotations)
        reg == register_loop(annotations, 1, members, ignore_internal,
                             initial_buckets(cs, base), <<>>)
        own == [defined |-> TRUE, base |-> base,
                annotations |-> body.annotations, assigned |-> body.assigned,
                ignore_internal |-> ignore_internal,
                repr_attached |-> repr,
                tc_options |-> [ignore_extra |-> ignore_extra,
                                optional_params |-> reg.optional_params,
                                required_params |-> reg.required_params,
                                params |-> reg.params]]
    IN  IF base = "TypedClass" THEN [cs EXCEPT ![cls] = own]
        ELSE [cs EXCEPT ![cls] = own,
                        ![base].tc_options.optional_params =
                            reg.optional_params,
                        ![base].tc_options.required_params =
                            reg.required_params]

(* The classes after the class statement                                   *)
(*   class cls(base, ignore_internal=.., ignore_extra=.., repr=..): body   *)
(* Only cls is written: cls.__tc_options__ (line 68) and cls.__repr__      *)
(* (line 113).                                                             *)
TypedClass_init_subclass(cs, cls, base, body, ignore_internal, ignore_extra, repr) ==
    LET members == body.assigned \cup {"__tc_options__"}
        annotations == get_type_hints(cs, base, body.annotations)
        reg == register_loop(annotations, 1, members, ignore_internal,
                             initial_buckets(cs, base), <<>>)
    IN  [cs EXCEPT ![cls] =
         [defined |-> TRUE, base |-> base,
          annotations |-> body.annotations, assigned |-> body.assigned,
          ignore_internal |-> ignore_internal,
          repr_attached |-> repr,
          tc_options |-> [ignore_extra |-> ignore_extra,
                          optional_params |-> reg.optional_params,
                          required_params |-> reg.required_params,
                          params |-> reg.params]]]

----------------------------------------------------------------------------
(* The binder: prepare_typed_instance and TypedClass.__new__.              *)
(* An outcome is what the caller of the constructor observes: the returned *)
(* instance (its __dict__, in assignment order) or the TypeError raised.   *)

Returned(inst) ==
    [kind |-> "returned", field |-> "", shape |-> "", expect |-> <<>>,
     names |-> <<>>, instance |-> inst]

Raised(kind, field, shape, expect, names) ==
    [kind |-> kind, field |-> field, shape |-> shape, expect |-> expect,
     names |-> names, instance |-> <<>>]

NoOutcome == Raised("", "", "", <<>>, <<>>)

(* The TypeError leaving apply_attr for parameter name: the matcher's own  *)
(* message names the parameter, the one of isinstance does not.            *)
RaisedByMatcher(r, name) ==
    Raised(r.res, IF r.res = "TypeMismatch" THEN name ELSE "", r.shape,
           r.expect, <<>>)

RECURSIVE bind_loop_break(_, _, _, _, _, _)
(* bind_loop leaving the required loop at the first missing name (break    *)
(* for continue on line 95).                                               *)
bind_loop_break(bucket, i, collect, params, inst, missing) ==
    IF i > Len(bucket)
    THEN [raised |-> FALSE, error |-> NoOutcome, params |-> params,
          inst |-> inst, missing |-> missing]
    ELSE LET p_name == bucket[i][1]
             p_type == bucket[i][2]
         IN  IF ~HasKey(params, p_name)
             THEN IF collect
                  THEN [raised |-> FALSE, error |-> NoOutcome,
                        params |-> params, inst |-> inst,
                        missing |-> Append1(missing, p_name)]
                  ELSE bind_loop_break(bucket, i + 1, collect, params, inst,
                                       missing)
             ELSE LET r == apply_attr(Lookup(params, p_name), p_type)
                  IN  IF r.res # "set"
                      THEN [raised |-> TRUE,
                            error |-> RaisedByMatcher(r, p_name),
                            params |-> params, inst |-> inst,
                            missing |-> missing]
                      ELSE bind_loop_break(bucket, i + 1, collect,
                                           RemoveKey(params, p_name),
                                           SetKey(inst, p_name, r.stored),
                                           missing)

RECURSIVE bind_loop(_, _, _, _, _, _)
(* The loops of lines 92-98 (collect = TRUE, over required_params) and of  *)
(* lines 105-110 (collect = FALSE, over optional_params), from entry i on. *)
(* The result holds the TypeError of apply_attr if one was raised, else    *)
(* the working arguments, the instance and the missing names.              *)
bind_loop(bucket, i, collect, params, inst, missing) ==
    IF i > Len(bucket)
    THEN [raised |-> FALSE, error |-> NoOutcome, params |-> params,
          inst |-> inst, missing |-> missing]
    ELSE LET p_name == bucket[i][1]
             p_type == bucket[i][2]
         IN  IF ~HasKey(params, p_name)
             THEN bind_loop(bucket, i + 1, collect, params, inst,
                            IF collect THEN Append1(missing, p_name)
                            ELSE missing)
             ELSE LET r == apply_attr(Lookup(params, p_name), p_type)
                  IN  IF r.res # "set"
                      THEN [raised |-> TRUE,
                            error |-> RaisedByMatcher(r, p_name),
                            params |-> params, inst |-> inst,
                            missing |-> missing]
                      ELSE bind_loop(bucket, i + 1, collect,
                                     RemoveKey(params, p_name),
                                     SetKey(inst, p_name, r.stored), missing)

(* prepare_typed_instance without the ignore_extra test of line 112:       *)
(* leftover keywords always raise.                                         *)
prepare_typed_instance_strict(options, kwargs) ==
    LET req == bind_loop(options.required_params, 1, TRUE, kwargs, <<>>, <<>>)
        opt == bind_loop(options.optional_params, 1, FALSE, req.params,
                         req.inst, <<>>)
    IN  IF req.raised THEN req.error
        ELSE IF req.missing # <<>>
        THEN Raised("MissingRequiredFields", "", "", <<>>, req.missing)
        ELSE IF opt.raised THEN opt.error
        ELSE IF opt.params # <<>>
        THEN Raised("UnexpectedFields", "", "", <<>>, Keys(opt.params))
        ELSE Returned(opt.inst)

prepare_typed_instance(options, kwargs) ==
    LET req == bind_loop(options.required_params, 1, TRUE, kwargs, <<>>, <<>>)
        opt == bind_loop(options.optional_params, 1, FALSE, req.params,
                         req.inst, <<>>)
    IN  IF req.raised THEN req.error
        ELSE IF req.missing # <<>>
        THEN Raised("MissingRequiredFields", "", "", <<>>, req.missing)
        ELSE IF opt.raised THEN opt.error
        ELSE IF opt.params # <<>> /\ ~options.ignore_extra
        THEN Raised("UnexpectedFields", "", "", <<>>, Keys(opt.params))
        ELSE Returned(opt.inst)

(* TypedClass.__new__: the call of cls with nargs positional arguments    *)
(* and the keyword arguments kwargs.                                       *)
TypedClass_new(cs, cls, nargs, kwargs) ==
    IF nargs > 0 THEN Raised("InvalidArgumentShape", "", "", <<>>, <<>>)
    ELSE prepare_typed_instance(cs[cls].tc_options, kwargs)

----------------------------------------------------------------------------
(* Attribute lookup and the generated representation.                      *)

(* The value a class body assigns: one token per class, so that the        *)
(* default of a base and of a derivative differ.                           *)
DefaultOf(cls) ==
    CASE cls = "B" -> "default_B"
      [] OTHER -> "default_D"

RECURSIVE class_attr(_, _, _)
(* Class attribute lookup along the MRO. *)
class_attr(cs, cls, name) ==
    IF cls = "TypedClass" THEN "AttributeError"
    ELSE IF name \in cs[cls].assigned THEN DefaultOf(cls)
    ELSE class_attr(cs, cs[cls].base, name)

(* getattr(self, name): the instance __dict__, then the class. *)
getattr(cs, cls, inst, name) ==
    IF HasKey(inst, name) THEN Lookup(inst, name)
    ELSE class_attr(cs, cls, name)

RECURSIVE has_typed_repr(_, _)
(* Whether type(self).__repr__ is _typed_class_repr: attached to the class *)
(* or inherited from a base it was attached to.                            *)
has_typed_repr(cs, cls) ==
    IF cls = "TypedClass" THEN FALSE
    ELSE cs[cls].repr_attached \/ has_typed_repr(cs, cs[cls].base)

RECURSIVE join_items(_, _, _, _)
(* ", ".join(f"{k}={getattr(self, k)!r}" for k in params), as text pieces. *)
join_items(cs, cls, inst, params) ==
    IF params = <<>> THEN <<>>
    ELSE <<Head(params), "=", getattr(cs, cls, inst, Head(params))>>
         \o (IF Tail(params) = <<>> THEN <<>> ELSE <<", ">>)
         \o join_items(cs, cls, inst, Tail(params))

(* _typed_class_repr(self), as the sequence of the pieces of the text. *)
typed_class_repr(cs, cls, inst) ==
    <<cls, "(">> \o join_items(cs, cls, inst, cs[cls].tc_options.params)
    \o <<")">>

(* repr(self) *)
repr_of(cs, cls, inst) ==
    IF has_typed_repr(cs, cls) THEN typed_class_repr(cs, cls, inst)
    ELSE <<"<", cls, " object>">>

----------------------------------------------------------------------------
(* The inputs.                                                             *)

MaxArgs == 1

(* The base a class statement names: B derives from TypedClass, D from B.  *)
Bases(cls) == IF cls = "B" THEN {"TypedClass"} ELSE {"B"}

(* The constraints a class body may annotate a name with. *)
FieldTypes(name) ==
    CASE name = "a" -> {"int", "Literal[1,2]"}
      [] name = "b" -> {"Union[int,Any]"}
      [] OTHER -> {"int"}

(* The orders in which a class body annotates names: B annotates any of a  *)
(* and b in either order, with or without _p after them; D annotates at    *)
(* most one name of its own.                                               *)
NameOrders(cls) ==
    IF cls = "B"
    THEN {ns \o tail : ns \in {<<>>, <<"a">>, <<"b">>, <<"a", "b">>,
                               <<"b", "a">>},
                       tail \in {<<>>, <<"_p">>}}
    ELSE {<<>>, <<"a">>, <<"b">>}

(* The annotation lists over the names of a sequence, in its order. *)
RECURSIVE Annotate(_)
Annotate(ns) ==
    IF ns = <<>> THEN {<<>>}
    ELSE {<< <<Head(ns), tp>> >> \o rest :
              tp \in FieldTypes(Head(ns)), rest \in Annotate(Tail(ns))}

(* The names a class body may assign a value to. *)
Assignable == {"a", "b"}

(* The class bodies: the annotations, and assignments to names the class   *)
(* annotates or inherits.                                                  *)
Bodies(cs, cls, base) ==
    UNION {UNION {{[annotations |-> ann, assigned |-> asg] :
                       asg \in SUBSET (Assignable \cap
                           (Range(Keys(ann)) \cup
                            Range(Keys(get_type_hints(cs, base, <<>>)))))} :
                  ann \in Annotate(ns)} :
           ns \in NameOrders(cls)}

(* The keywords of a class statement: the defaults (ignore_internal=True,  *)
(* ignore_extra=False, repr=True) with at most one of them changed.        *)
Configs ==
    {kw \in [ignore_internal : BOOLEAN, ignore_extra : BOOLEAN,
             repr : BOOLEAN] :
         Cardinality({f \in {"ignore_extra"} : kw[f]} \cup
                     {f \in {"ignore_internal", "repr"} : ~kw[f]}) <= 1}

(* The keyword arguments of a call, written in the order a, b, _p, z; each *)
(* is left out or given one of the values.                                 *)
KwNames == <<"a", "b", "_p", "z">>

KwValues(name) == IF name \in {"a", "b"} THEN {"1", "x"} ELSE {"1"}

RECURSIVE KwargsOver(_)
KwargsOver(ns) ==
    IF ns = <<>> THEN {<<>>}
    ELSE {first \o rest :
              first \in {<<>>} \cup {<< <<Head(ns), v>> >> :
                                         v \in KwValues(Head(ns))},
              rest \in KwargsOver(Tail(ns))}

Kwargs == KwargsOver(KwNames)

----------------------------------------------------------------------------
(* The state machine.                                                      *)
(*   classes  the class objects, by name;                                  *)
(*   call     the constructor call in progress at the caller: its          *)
(*            arguments, its outcome and, once asked for, repr(instance);  *)
(*   m        one application of apply_attr to a fresh instance.           *)

Idle ==
    [status |-> "idle", cls |-> "", nargs |-> 0, kwargs |-> <<>>,
     out |-> NoOutcome, text |-> <<>>]

NoMatch == [status |-> "none", tp |-> "", val |-> "", out |-> Assigned("")]

Init ==
    /\ classes = [c \in ClassNames |-> NoClass]
    /\ call = Idle
    /\ m = NoMatch

(* class cls(base, ...): body *)
Define(cls) ==
    /\ call.status = "idle"
    /\ ~classes[cls].defined
    /\ \E base \in Bases(cls) :
          /\ IF base = "TypedClass" THEN TRUE ELSE classes[base].defined
          /\ \E body \in Bodies(classes, cls, base), kw \in Configs :
                classes' = TypedClass_init_subclass(classes, cls, base, body,
                               kw.ignore_internal, kw.ignore_extra, kw.repr)
    /\ UNCHANGED <<call, m>>

(* cls(...) *)
Construct(cls) ==
    /\ call.status = "idle"
    /\ classes[cls].defined
    /\ \E nargs \in 0..MaxArgs, kwargs \in Kwargs :
          call' = [status |-> "done", cls |-> cls, nargs |-> nargs,
                   kwargs |-> kwargs,
                   out |-> TypedClass_new(classes, cls, nargs, kwargs),
                   text |-> <<>>]
    /\ UNCHANGED <<classes, m>>

(* repr(instance) on the instance the call returned. *)
Repr ==
    /\ call.status = "done"
    /\ call.out.kind = "returned"
    /\ call' = [call EXCEPT !.status = "shown",
                            !.text = repr_of(classes, call.cls,
                                             call.out.instance)]
    /\ UNCHANGED <<classes, m>>

(* The caller drops the instance or the exception. *)
Discard ==
    /\ call.status \in {"done", "shown"}
    /\ call' = Idle
    /\ UNCHANGED <<classes, m>>

Next ==
    \/ \E cls \in ClassNames : Define(cls)
    \/ \E cls \in ClassNames : Construct(cls)
    \/ Repr
    \/ Discard

Spec == Init /\ [][Next]_vars

----------------------------------------------------------------------------
(* The matcher on its own: apply_attr(tc, val, tp, name) on a fresh        *)
(* instance, for every descriptor and value of the catalogue.              *)

InitMatch ==
    /\ classes = [c \in ClassNames |-> NoClass]
    /\ call = Idle
    /\ \E tp \in Types, val \in Values :
          m = [status |-> "pending", tp |-> tp, val |-> val,
               out |-> Assigned("")]

ApplyAttr ==
    /\ m.status = "pending"
    /\ m' = [m EXCEPT !.status = "done", !.out = apply_attr(m.val, m.tp)]
    /\ UNCHANGED <<classes, call>>

NextMatch == ApplyAttr

SpecMatch == InitMatch /\ [][NextMatch]_vars

----------------------------------------------------------------------------
(* Vocabulary of the properties.                                           *)

RequiredNames(c) == Keys(classes[c].tc_options.required_params)

OptionalNames(c) == Keys(classes[c].tc_options.optional_params)

Registered(c) == Range(RequiredNames(c)) \cup Range(OptionalNames(c))

ConstraintOf(c, f) ==
    IF HasKey(classes[c].tc_options.required_params, f)
    THEN Lookup(classes[c].tc_options.required_params, f)
    ELSE Lookup(classes[c].tc_options.optional_params, f)

(* The matcher accepts value v for constraint tp. *)
Accepts(tp, v) == apply_attr(v, tp).res = "set"

(* A constructor call with keyword arguments only has been made. *)
Called == call.status # "idle" /\ call.nargs = 0

SuppliedNames == Range(Keys(call.kwargs))

(* The supplied value of every registered field of the called class is     *)
(* accepted by the matcher for the field's constraint.                     *)
SuppliedValuesValid(names) ==
    \A f \in names \cap SuppliedNames :
        Accepts(ConstraintOf(call.cls, f), Lookup(call.kwargs, f))

(* The registered fields of c in declaration order: the order of the       *)
(* annotations of c and of its bases.                                      *)
DeclarationOrder(c) ==
    SelectSeq(Keys(get_type_hints(classes, classes[c].base,
                                  classes[c].annotations)),
              LAMBDA f : f \in Registered(c))

(* The first name of a sequence that is supplied with a value the matcher  *)
(* does not accept; "" if there is none.                                   *)
FirstRejected(names) ==
    LET bad == SelectSeq(names, LAMBDA f :
                   /\ f \in SuppliedNames
                   /\ ~Accepts(ConstraintOf(call.cls, f),
                               Lookup(call.kwargs, f)))
    IN  IF bad = <<>> THEN "" ELSE Head(bad)

----------------------------------------------------------------------------
(* C1: after a successful construct(S, kwargs), every declared field of S  *)
(* whose name is in kwargs holds exactly the supplied value, whatever the  *)
(* kind of its constraint; the constraint descriptor is never stored.      *)
C1_SuppliedValueStored ==
    (Called /\ call.out.kind = "returned") =>
        \A f \in Registered(call.cls) \cap SuppliedNames :
            /\ HasKey(call.out.instance, f)
            /\ Lookup(call.out.instance, f) = Lookup(call.kwargs, f)

(* D's body neither annotates nor assigns f. *)
Untouched(f) ==
    ~HasKey(classes["D"].annotations, f) /\ f \notin classes["D"].assigned

(* The call on D leaves out f and is otherwise valid: every other field    *)
(* that D requires is supplied, supplied values are accepted, and extra    *)
(* keywords are absent or ignored.                                         *)
OtherwiseValid(f) ==
    /\ Called /\ call.cls = "D"
    /\ f \notin SuppliedNames
    /\ Range(RequiredNames("D")) \ {f} \subseteq SuppliedNames
    /\ SuppliedValuesValid(Registered("D"))
    /\ (SuppliedNames \subseteq Registered("D")
            \/ classes["D"].tc_options.ignore_extra)

(* C2: a field that B declares and D's body neither re-annotates nor       *)
(* assigns has in D the bucket it has in B; if B gives it a default, a     *)
(* call of D that leaves it out and is otherwise valid succeeds and the    *)
(* instance's field equals B's default.                                    *)
C2_InheritedBucketKept ==
    classes["D"].defined =>
        \A f \in Registered("B") : Untouched(f) =>
            /\ f \in Range(RequiredNames("B")) => f \in Range(RequiredNames("D"))
            /\ f \in Range(OptionalNames("B")) => f \in Range(OptionalNames("D"))
            /\ (f \in Range(OptionalNames("B")) /\ OtherwiseValid(f)) =>
                   /\ call.out.kind = "returned"
                   /\ getattr(classes, "D", call.out.instance, f)
                          = DefaultOf("B")

(* The required fields of the called class that kwargs leave out, in the   *)
(* stored order of the required fields.                                    *)
AbsentRequired ==
    SelectSeq(RequiredNames(call.cls), LAMBDA f : f \notin SuppliedNames)

PipelineVerdict ==
    LET c == call.cls
        order == DeclarationOrder(c)
        required == SelectSeq(order, LAMBDA f : f \in Range(RequiredNames(c)))
        optional == SelectSeq(order, LAMBDA f : f \in Range(OptionalNames(c)))
    IN  IF call.nargs > 0 THEN <<"InvalidArgumentShape", "">>
        ELSE IF FirstRejected(required) # ""
        THEN <<"TypeMismatch", FirstRejected(required)>>
        ELSE IF \E f \in Range(required) : f \notin SuppliedNames
        THEN <<"MissingRequiredFields", "">>
        ELSE IF FirstRejected(optional) # ""
        THEN <<"TypeMismatch", FirstRejected(optional)>>
        ELSE IF /\ ~(SuppliedNames \subseteq Registered(c))
                /\ ~classes[c].tc_options.ignore_extra
        THEN <<"UnexpectedFields", "">>
        ELSE <<"returned", "">>

(* C4: the error of a failing call is that of the first failing stage:     *)
(* positional arguments (InvalidArgumentShape), the first supplied         *)
(* required field in declaration order whose value fails (TypeMismatch for *)
(* that field), an absent required field (MissingRequiredFields), the      *)
(* first supplied optional field whose value fails (TypeMismatch),         *)
(* leftover keywords without ignore_extra (UnexpectedFields); the call     *)
(* succeeds iff no stage fails.                                            *)
C4_FirstFailingStage ==
    call.status # "idle" =>
        <<call.out.kind, call.out.field>> = PipelineVerdict

(* The supplied keywords that are not registered fields of the class. *)
Extras == SuppliedNames \ Registered(call.cls)

IsOptionalForm(tp) ==
    /\ get_origin(tp) = "Union"
    /\ Len(get_args(tp)) = 2
    /\ get_args(tp)[2] = "NoneType"

(* C6: for a field whose constraint is Optional(C), whatever C is, the     *)
(* matcher accepts v iff v is None or C itself accepts v, and a rejection  *)
(* is reported as a TypeMismatch.                                          *)
C6_OptionalDelegates ==
    (m.status = "done" /\ IsOptionalForm(m.tp)) =>
        /\ (m.out.res = "set") <=>
               (m.val = "None" \/ Accepts(get_args(m.tp)[1], m.val))
        /\ m.out.res # "set" => m.out.res = "TypeMismatch"

(* C7: for a field whose constraint is a Union other than the Optional     *)
(* form, the matcher accepts v iff at least one branch accepts v; a branch *)
(* whose evaluation raises counts as a non-match and the remaining         *)
(* branches are still tried; only when no branch matches, one aggregate    *)
(* TypeMismatch naming all branches is raised.                             *)
C7_UnionAnyBranch ==
    (m.status = "done" /\ get_origin(m.tp) = "Union"
        /\ ~IsOptionalForm(m.tp)) =>
        /\ (m.out.res = "set") <=>
               \E i \in 1..Len(get_args(m.tp)) :
                   Accepts(get_args(m.tp)[i], m.val)
        /\ m.out.res # "set" => m.out = Mismatch("one of", get_args(m.tp))

(* C8: once built, the metadata of a class never changes: no class         *)
(* statement and no constructor call, successful or failing, alters the    *)
(* required set, the optional set, the field order or ignore_extra of a    *)
(* class that is already defined.                                          *)
C8_MetadataFrozen ==
    [][\A c \in ClassNames : classes[c].defined =>
           /\ classes'[c].defined
           /\ classes'[c].tc_options = classes[c].tc_options]_vars

(* C8 witness: D gives a default to a field B requires, the field is       *)
(* optional in D and still required in B, and a call of D has returned.    *)
C8_Witness ==
    /\ classes["D"].defined
    /\ \E f \in Range(RequiredNames("B")) :
           /\ f \in classes["D"].assigned
           /\ f \in Range(OptionalNames("D"))
    /\ Called /\ call.cls = "D"
    /\ call.out.kind = "returned"

RECURSIVE RenderedFields(_)
(* The pieces f=v of the fields of a sequence, v being the supplied value  *)
(* of f or else its class-level default.                                   *)
RenderedFields(names) ==
    IF names = <<>> THEN <<>>
    ELSE <<Head(names), "=",
           IF Head(names) \in SuppliedNames
           THEN Lookup(call.kwargs, Head(names))
           ELSE class_attr(classes, call.cls, Head(names))>>
         \o (IF Tail(names) = <<>> THEN <<>> ELSE <<", ">>)
         \o RenderedFields(Tail(names))

(* C9: for a class registered with generate_repr true, the text of a       *)
(* constructed instance is StructureName(f1=v1, ..., fn=vn) over all       *)
(* registered fields, once each, in declaration order, vi being the        *)
(* supplied value of fi or else its class-level default.                   *)
C9_ReprShowsFields ==
    (call.status = "shown" /\ classes[call.cls].repr_attached) =>
        call.text = <<call.cls, "(">>
                    \o RenderedFields(DeclarationOrder(call.cls))
                    \o <<")">>

(* C10: the metadata of every class has disjoint required and optional     *)
(* buckets whose union is the set of names of the ordered field list,      *)
(* which has no duplicates; a name is optional iff the class's own body    *)
(* assigns it; no registered name starts with a double underscore, nor     *)
(* with a single underscore when ignore_internal is true.                  *)
C10_MetadataWellFormed ==
    \A c \in ClassNames : classes[c].defined =>
        LET o == classes[c].tc_options
            required == Range(RequiredNames(c))
            optional == Range(OptionalNames(c))
        IN  /\ required \cap optional = {}
            /\ required \cup optional = Range(o.params)
            /\ Cardinality(Range(o.params)) = Len(o.params)
            /\ Cardinality(required) = Len(o.required_params)
            /\ Cardinality(optional) = Len(o.optional_params)
            /\ \A n \in Range(o.params) :
                   /\ n \in optional <=> n \in classes[c].assigned
                   /\ ~startswith(n, "__")
                   /\ classes[c].ignore_internal => ~startswith(n, "_")

(* C10 witness: D derives from a B that registers _p; D skips _p because   *)
(* of ignore_internal, and has a required and an optional field.           *)
C10_Witness ==
    /\ classes["D"].defined
    /\ "_p" \in Registered("B")
    /\ classes["D"].ignore_internal
    /\ "_p" \notin Registered("D")
    /\ RequiredNames("D") # <<>>
    /\ OptionalNames("D") # <<>>

====
